---- MODULE Spec2Model ----
(***************************************************************************)
(* BioScout Islamabad (src/bioscout_app.py): the observation store kept in *)
(* data/observations.csv, the submission handler, the display block, the   *)
(* keyword query and the synthesized answer.                               *)
(*                                                                         *)
(* A text is a sequence of one-character strings.  A CSV file is a header  *)
(* and a sequence of rows of texts.  A DataFrame is a sequence of rows of  *)
(* typed values: pandas' read_csv infers each column's type and reads its  *)
(* NA markers as NaN, and to_csv formats the values back to text.          *)
(***************************************************************************)
EXTENDS Integers, Sequences, FiniteSets, TLC

VARIABLES file, images, history, obs_df, top_observer, error,
          query, ask_df, kb_hits, obs_hits, answer, op, kb,
          sess, overlap, writes

vars == <<file, images, history, obs_df, top_observer, error,
          query, ask_df, kb_hits, obs_hits, answer, op, kb,
          sess, overlap, writes>>

\* Bounds of the model.
MaxRows == 2
NumSessions == 2

-----------------------------------------------------------------------------
\* Texts

NL == "\n"

UpperCase == <<"A","B","C","D","E","F","G","H","I","J","K","L","M",
               "N","O","P","Q","R","S","T","U","V","W","X","Y","Z">>
LowerCase == <<"a","b","c","d","e","f","g","h","i","j","k","l","m",
               "n","o","p","q","r","s","t","u","v","w","x","y","z">>
DigitChars == <<"0","1","2","3","4","5","6","7","8","9">>

Range(s) == {s[i] : i \in DOMAIN s}

\* str.lower() on one character, then on a text
LowerChar(c) ==
  IF \E i \in DOMAIN UpperCase : UpperCase[i] = c
  THEN LowerCase[CHOOSE i \in DOMAIN UpperCase : UpperCase[i] = c]
  ELSE c

lower(s) == [i \in DOMAIN s |-> LowerChar(s[i])]

\* Python's `q in s` on strings
IsSubstring(q, s) ==
  \E i \in 0..(Len(s) - Len(q)) : SubSeq(s, i + 1, i + Len(q)) = q

\* s.split('\n')[0]
FirstLine(s) ==
  IF \E i \in DOMAIN s : s[i] = NL
  THEN SubSeq(s, 1, (CHOOSE i \in DOMAIN s :
                       s[i] = NL /\ \A j \in 1..(i - 1) : s[j] # NL) - 1)
  ELSE s

\* "\n".join(lines)
RECURSIVE JoinLines(_)
JoinLines(lines) ==
  IF lines = <<>> THEN <<>>
  ELSE IF Len(lines) = 1 THEN lines[1]
  ELSE lines[1] \o <<NL>> \o JoinLines(Tail(lines))

\* decimal digits of a natural number, and back
RECURSIVE Digits(_)
Digits(n) ==
  IF n < 10 THEN <<DigitChars[n + 1]>>
  ELSE Digits(n \div 10) \o <<DigitChars[(n % 10) + 1]>>

DigitValue(c) == (CHOOSE i \in DOMAIN DigitChars : DigitChars[i] = c) - 1

RECURSIVE ToInt(_)
ToInt(s) ==
  IF s = <<>> THEN 0
  ELSE 10 * ToInt(SubSeq(s, 1, Len(s) - 1)) + DigitValue(s[Len(s)])

-----------------------------------------------------------------------------
\* The CSV file and pandas' reading and writing of it

Columns == <<"observation_id", "species_name", "common_name", "date_observed",
             "location", "image_url", "notes", "submitted_by">>

AbsentFile == [exists |-> FALSE, header |-> <<>>, rows |-> <<>>]

\* DataFrame cell values
StrV(s) == [t |-> "str", s |-> s, n |-> 0]
NaN == [t |-> "nan", s |-> <<>>, n |-> 0]
IntV(n) == [t |-> "int", s |-> <<>>, n |-> n]
FloatV(n) == [t |-> "float", s |-> <<>>, n |-> n]

\* the cell texts read_csv reads as NaN by default
NaValues ==
  { <<>>,
    <<"#","N","/","A">>, <<"#","N","/","A"," ","N","/","A">>, <<"#","N","A">>,
    <<"-","1",".","#","I","N","D">>, <<"-","1",".","#","Q","N","A","N">>,
    <<"-","N","a","N">>, <<"-","n","a","n">>,
    <<"1",".","#","I","N","D">>, <<"1",".","#","Q","N","A","N">>,
    <<"<","N","A",">">>, <<"N","/","A">>, <<"N","A">>, <<"N","U","L","L">>,
    <<"N","a","N">>, <<"N","o","n","e">>, <<"n","/","a">>, <<"n","a","n">>,
    <<"n","u","l","l">> }

IsInt(s) == s # <<>> /\ Range(s) \subseteq Range(DigitChars)

\* the decimal form to_csv writes for a float with an integral value
IsFloat(s) ==
  \E i \in DOMAIN s :
     /\ s[i] = "."
     /\ IsInt(SubSeq(s, 1, i - 1))
     /\ i < Len(s)
     /\ \A j \in (i + 1)..Len(s) : s[j] = "0"

IntPart(s) == ToInt(SubSeq(s, 1, (CHOOSE i \in DOMAIN s : s[i] = ".") - 1))

\* the dtype read_csv infers for column c of the rows
ColumnKind(rows, c) ==
  LET present == {i \in DOMAIN rows : rows[i][c] \notin NaValues} IN
    IF present = {} THEN "float"
    ELSE IF \A i \in present : IsInt(rows[i][c])
         THEN (IF present = DOMAIN rows THEN "int" ELSE "float")
    ELSE IF \A i \in present : IsInt(rows[i][c]) \/ IsFloat(rows[i][c])
         THEN "float"
    ELSE "object"

ParseCell(kind, s) ==
  IF s \in NaValues THEN NaN
  ELSE IF kind = "int" THEN IntV(ToInt(s))
  ELSE IF kind = "float" THEN FloatV(IF IsInt(s) THEN ToInt(s) ELSE IntPart(s))
  ELSE StrV(s)

\* pd.read_csv(OBS_CSV_PATH): the column types are inferred once, then
\* every cell is read as its column's type
read_csv(f) ==
  CHOOSE df \in
    { [columns |-> f.header,
       rows |-> [i \in DOMAIN f.rows |->
                   [c \in Range(f.header) |-> ParseCell(kind[c], f.rows[i][c])]]]
      : kind \in {[c \in Range(f.header) |-> ColumnKind(f.rows, c)]} } : TRUE

\* the text to_csv writes for a value
FormatCell(v) ==
  IF v.t = "str" THEN v.s
  ELSE IF v.t = "nan" THEN <<>>
  ELSE IF v.t = "int" THEN Digits(v.n)
  ELSE Digits(v.n) \o <<".", "0">>

\* df.to_csv(OBS_CSV_PATH, index=False)
to_csv(df) ==
  [exists |-> TRUE,
   header |-> df.columns,
   rows |-> [i \in DOMAIN df.rows |->
               [c \in Range(df.columns) |-> FormatCell(df.rows[i][c])]]]

\* Python's str(value), also the text an f-string puts for the value
PyStr(v) ==
  IF v.t = "str" THEN v.s
  ELSE IF v.t = "nan" THEN <<"n","a","n">>
  ELSE IF v.t = "int" THEN Digits(v.n)
  ELSE Digits(v.n) \o <<".", "0">>

\* pd.DataFrame([row]) of a dict of strings
DataFrameOfRow(row) ==
  [columns |-> Columns,
   rows |-> << [c \in Range(Columns) |-> StrV(row[c])] >>]

\* a concat that keeps only the new frame's rows
concat_new_only(df, new) == [columns |-> df.columns, rows |-> new.rows]

\* pd.concat([df, new], ignore_index=True)
concat(df, new) == [columns |-> df.columns, rows |-> df.rows \o new.rows]

DfEmpty(df) == df.rows = <<>>

-----------------------------------------------------------------------------
\* Helper functions of the application

\* a load_observations that writes the header-only file without looking
\* whether the file exists
load_observations_always_creates(f) ==
  [file |-> to_csv([columns |-> Columns, rows |-> <<>>]),
   df |-> read_csv(to_csv([columns |-> Columns, rows |-> <<>>]))]

\* load_observations(): creates the header-only file when it is absent,
\* then reads the file.  Gives the file as it is left and the DataFrame.
load_observations(f) ==
  LET g == IF ~f.exists
           THEN to_csv([columns |-> Columns, rows |-> <<>>])
           ELSE f
  IN [file |-> g, df |-> read_csv(g)]

\* save_observation(row): gives the file as it is left
save_observation(f, row) ==
  LET l == load_observations(f) IN
    to_csv(concat(l.df, DataFrameOfRow(row)))

\* get_kb_snippets(): the texts of KB_DIR/*.txt in glob order
get_kb_snippets(dir) == dir

\* the condition of the loop body of simple_rag_query
RowMatches(query_lower, row) ==
  \/ IsSubstring(query_lower, lower(PyStr(row["species_name"])))
  \/ IsSubstring(query_lower, lower(PyStr(row["common_name"])))
  \/ IsSubstring(query_lower, lower(PyStr(row["notes"])))
  \/ IsSubstring(query_lower, lower(PyStr(row["location"])))

\* a simple_rag_query that returns no hit for an empty query
simple_rag_query_guarded(q, df, kb_snippets) ==
  [kb_hits |-> SelectSeq(kb_snippets,
                         LAMBDA s : q # <<>> /\ IsSubstring(lower(q), lower(s))),
   obs_hits |-> SelectSeq(df.rows,
                          LAMBDA row : q # <<>> /\ RowMatches(lower(q), row))]

simple_rag_query(q, df, kb_snippets) ==
  LET query_lower == lower(q) IN
    [kb_hits |-> SelectSeq(kb_snippets,
                           LAMBDA s : IsSubstring(query_lower, lower(s))),
     obs_hits |-> SelectSeq(df.rows,
                            LAMBDA row : RowMatches(query_lower, row))]

\* get_top_observer(obs_df): the values it can return.  value_counts()
\* leaves NaN out; idxmax() of an empty count raises ValueError; which of
\* several values with the greatest count comes first is not specified.
NotAvailable == StrV(<<"N","/","A">>)
ValueError == [t |-> "ValueError", s |-> <<>>, n |-> 0]

get_top_observer(df) ==
  LET present == {i \in DOMAIN df.rows : df.rows[i]["submitted_by"].t # "nan"}
      Count(v) == Cardinality({i \in present : df.rows[i]["submitted_by"] = v})
  IN IF DfEmpty(df) THEN {NotAvailable}
     ELSE IF present = {} THEN {ValueError}
     ELSE {df.rows[i]["submitted_by"] : i \in
             {i \in present : \A j \in present :
                Count(df.rows[i]["submitted_by"]) >=
                Count(df.rows[j]["submitted_by"])}}

-----------------------------------------------------------------------------
\* The page script

Anonymous == <<"A","n","o","n","y","m","o","u","s">>

\* str(uuid.uuid4()): a random identifier; sample values, shortened
Uuids == { <<"3","f","-","4","a">>, <<"9","c","-","4","b">> }

\* os.path.join("data/images", f"{uuid.uuid4()}.jpg")
ImagePath(u) == <<"i","m","g","/">> \o u \o <<".","j","p","g">>

\* the obs_row dict of the submission handler
obs_row(form, image_url, u) ==
  [c \in Range(Columns) |->
     CASE c = "observation_id" -> u
       [] c = "species_name" -> form.species_name
       [] c = "common_name" -> form.common_name
       [] c = "date_observed" -> form.date_observed
       [] c = "location" -> form.location
       [] c = "image_url" -> image_url
       [] c = "notes" -> form.notes
       [] c = "submitted_by" ->
            IF form.submitted_by = <<>> THEN Anonymous ELSE form.submitted_by]

NoValue == [t |-> "none", s |-> <<>>, n |-> 0]
NoDf == [columns |-> <<>>, rows |-> <<>>]

\* the "Display Observations" block: its possible outcomes on file f
DisplayObservations(f) ==
  UNION { IF DfEmpty(l.df)
          THEN {[file |-> l.file, obs_df |-> l.df, top_observer |-> NoValue,
                 error |-> "none"]}
          ELSE {[file |-> l.file, obs_df |-> l.df,
                 top_observer |-> IF t = ValueError THEN NoValue ELSE t,
                 error |-> IF t = ValueError THEN "ValueError" ELSE "none"] :
                t \in get_top_observer(l.df)}
          : l \in {load_observations(f)} }

\* the "AI Answer" block
AnswerHeader == <<"Based on available data, here's what we found:">>
Bullet == "* "   \* the bullet character and a space
NotFoundMessage ==
  <<"Sorry, I could not find relevant information. Try using different keywords or submit new observations!">>

ObsLine(row) ==
  <<Bullet>> \o PyStr(row["species_name"]) \o <<" observed at ">>
    \o PyStr(row["location"]) \o <<" (">> \o PyStr(row["date_observed"])
    \o <<")">>

\* an answer without the newline between the kb lines and the
\* observation lines
AIAnswer_no_separator(kbh, obsh) ==
  IF kbh # <<>> \/ obsh # <<>>
  THEN AnswerHeader \o <<NL, NL>>
       \o JoinLines([i \in DOMAIN kbh |-> <<Bullet>> \o FirstLine(kbh[i])])
       \o JoinLines([i \in DOMAIN obsh |-> ObsLine(obsh[i])])
  ELSE NotFoundMessage

AIAnswer(kbh, obsh) ==
  IF kbh # <<>> \/ obsh # <<>>
  THEN AnswerHeader \o <<NL, NL>>
       \o JoinLines([i \in DOMAIN kbh |-> <<Bullet>> \o FirstLine(kbh[i])])
       \o (IF kbh # <<>> THEN <<NL>> ELSE <<>>)
       \o JoinLines([i \in DOMAIN obsh |-> ObsLine(obsh[i])])
  ELSE NotFoundMessage

-----------------------------------------------------------------------------
\* Inputs

Empty == <<>>
Tit == <<"T","i","t">>
ZeroOne == <<"0","1">>
Ali == <<"A","l","i">>
NA == <<"N","A">>
Today == <<"2","0","2","4","-","0","5","-","0","1">>

\* what a user fills in on the Observation Hub
HubForms ==
  [species_name : {Empty, Tit, ZeroOne}, common_name : {Empty},
   date_observed : {Today}, location : {Empty}, image_file : BOOLEAN,
   notes : {Empty}, submitted_by : {Empty, Ali, NA}]

\* what a user fills in before asking questions: none, one or all of the
\* four searched fields
QAForms ==
  { form \in [species_name : {Empty, Tit}, common_name : {Empty, Tit},
              date_observed : {Today}, location : {Empty, Tit},
              image_file : {FALSE}, notes : {Empty, Tit},
              submitted_by : {Ali}] :
      Cardinality({c \in {"species_name", "common_name", "location", "notes"} :
                     form[c] # Empty}) \in {0, 1, 4} }

\* what the concurrent sessions fill in
SessionForms ==
  [species_name : {Tit}, common_name : {Tit},
   date_observed : {Today}, location : {Tit}, image_file : {FALSE},
   notes : {Tit}, submitted_by : {Ali}]

\* the questions asked
Queries == { Empty, <<"T","I">>, <<"n","a">>, <<"x">> }

\* the contents of data/kb_snippets
Snippet1 == <<"T","i","t",NL,"n","a">>
Snippet2 == <<"t","I","t","s">>
KbChoices == { <<>>, <<Snippet1, Snippet2>> }

-----------------------------------------------------------------------------
\* State

Idle == [pc |-> "idle", row |-> <<>>, df |-> NoDf]

Init ==
  /\ file = AbsentFile
  /\ images = {}
  /\ history = <<>>
  /\ obs_df = NoDf
  /\ top_observer = NoValue
  /\ error = "none"
  /\ query = <<>>
  /\ ask_df = NoDf
  /\ kb_hits = <<>>
  /\ obs_hits = <<>>
  /\ answer = <<>>
  /\ op = "start"
  /\ kb \in KbChoices
  /\ sess = [p \in 1..NumSessions |-> Idle]
  /\ overlap = FALSE
  /\ writes = <<>>

NoAsk ==
  /\ query' = <<>>
  /\ ask_df' = NoDf
  /\ kb_hits' = <<>>
  /\ obs_hits' = <<>>
  /\ answer' = <<>>

\* A run of the script with the form submitted: the submission handler,
\* then the display block.
Submit(form, u_id) ==
  /\ Len(history) < MaxRows
  /\ \E image_url \in IF form.image_file
                      THEN {ImagePath(u_img) : u_img \in Uuids}
                      ELSE {<<>>} :
       LET row == obs_row(form, image_url, u_id)
           saved == save_observation(file, row)
       IN /\ images' = IF form.image_file THEN images \cup {image_url}
                       ELSE images
          /\ history' = Append(history,
                               [row |-> row, uploaded |-> form.image_file])
          /\ \E d \in DisplayObservations(saved) :
               /\ file' = d.file
               /\ obs_df' = d.obs_df
               /\ top_observer' = d.top_observer
               /\ error' = d.error
  /\ NoAsk
  /\ op' = "submit"
  /\ UNCHANGED <<kb, sess, overlap, writes>>

\* A run of the script with nothing pressed: the display block only.
Display ==
  /\ \E d \in DisplayObservations(file) :
       /\ file' = d.file
       /\ obs_df' = d.obs_df
       /\ top_observer' = d.top_observer
       /\ error' = d.error
  /\ NoAsk
  /\ op' = "display"
  /\ UNCHANGED <<images, history, kb, sess, overlap, writes>>

\* A run of the script with "Ask AI" pressed: the display block, then the
\* handler of the button, unless the display block raised.
AskAI(q) ==
  /\ \E d \in DisplayObservations(file) :
       /\ obs_df' = d.obs_df
       /\ top_observer' = d.top_observer
       /\ error' = d.error
       /\ IF d.error # "none"
          THEN file' = d.file /\ NoAsk
          ELSE \E l \in {load_observations(d.file)} :
               \E r \in {simple_rag_query(q, l.df, get_kb_snippets(kb))} :
                  /\ file' = l.file
                  /\ query' = q
                  /\ ask_df' = l.df
                  /\ kb_hits' = r.kb_hits
                  /\ obs_hits' = r.obs_hits
                  /\ answer' = AIAnswer(r.kb_hits, r.obs_hits)
  /\ op' = "ask"
  /\ UNCHANGED <<images, history, kb, sess, overlap, writes>>

SubmitHub == \E form \in HubForms, u_id \in Uuids : Submit(form, u_id)

SubmitQA == \E form \in QAForms, u_id \in Uuids : Submit(form, u_id)

Ask == \E q \in Queries : AskAI(q)

\* The Observation Hub: submissions and page views.
Next == SubmitHub \/ Display

Spec == Init /\ [][Next]_vars

\* The Q&A tab: submissions, page views and questions.
NextQA == SubmitQA \/ Display \/ Ask

SpecQA == Init /\ [][NextQA]_vars

-----------------------------------------------------------------------------
\* Concurrent sessions: each calls save_observation once.  The call checks
\* that the file exists, creates it when it saw none, reads it, and rewrites
\* it with the new row; no lock is held between the steps.

Active(p) == sess[p].pc \in {"create", "read", "write"}

Call(p, form, u_id) ==
  /\ sess[p].pc = "idle"
  /\ sess' = [sess EXCEPT ![p] =
                [pc |-> IF file.exists THEN "read" ELSE "create",
                 row |-> obs_row(form, <<>>, u_id), df |-> NoDf]]
  /\ overlap' = (overlap \/ \E o \in DOMAIN sess : o # p /\ Active(o))
  /\ UNCHANGED <<file, images, history, obs_df, top_observer, error, query,
                 ask_df, kb_hits, obs_hits, answer, op, kb, writes>>

Create(p) ==
  /\ sess[p].pc = "create"
  /\ file' = to_csv([columns |-> Columns, rows |-> <<>>])
  /\ sess' = [sess EXCEPT ![p].pc = "read"]
  /\ UNCHANGED <<images, history, obs_df, top_observer, error, query,
                 ask_df, kb_hits, obs_hits, answer, op, kb, overlap, writes>>

Read(p) ==
  /\ sess[p].pc = "read"
  /\ sess' = [sess EXCEPT ![p].pc = "write", ![p].df = read_csv(file)]
  /\ UNCHANGED <<file, images, history, obs_df, top_observer, error, query,
                 ask_df, kb_hits, obs_hits, answer, op, kb, overlap, writes>>

Write(p) ==
  /\ sess[p].pc = "write"
  /\ file' = to_csv(concat(sess[p].df, DataFrameOfRow(sess[p].row)))
  /\ sess' = [sess EXCEPT ![p].pc = "done"]
  /\ writes' = Append(writes, p)
  /\ history' = Append(history, [row |-> sess[p].row, uploaded |-> FALSE])
  /\ UNCHANGED <<images, obs_df, top_observer, error, query,
                 ask_df, kb_hits, obs_hits, answer, op, kb, overlap>>

CallSave == \E p \in 1..NumSessions, form \in SessionForms, u_id \in Uuids :
              Call(p, form, u_id)
CreateFile == \E p \in 1..NumSessions : Create(p)
ReadFile == \E p \in 1..NumSessions : Read(p)
WriteFile == \E p \in 1..NumSessions : Write(p)

NextConc == CallSave \/ CreateFile \/ ReadFile \/ WriteFile

SpecConc == Init /\ [][NextConc]_vars

-----------------------------------------------------------------------------
\* Properties

SearchedFields == {"species_name", "common_name", "notes", "location"}

IsPrefix(a, b) == Len(a) <= Len(b) /\ SubSeq(b, 1, Len(a)) = a

\* the lines of a text, cut at every newline
RECURSIVE SplitLines(_)
SplitLines(s) ==
  IF \E i \in DOMAIN s : s[i] = NL
  THEN LET k == CHOOSE i \in DOMAIN s :
                  s[i] = NL /\ \A j \in 1..(i - 1) : s[j] # NL
       IN <<SubSeq(s, 1, k - 1)>> \o SplitLines(SubSeq(s, k + 1, Len(s)))
  ELSE <<s>>

\* the elements of seq at the positions in keep, in order
Pick(seq, keep) ==
  LET idx == SelectSeq([i \in DOMAIN seq |-> i], LAMBDA i : i \in keep)
  IN [k \in DOMAIN idx |-> seq[idx[k]]]

Asked == op = "ask" /\ error = "none"

\* line is the bullet and the first line of the snippet hit
IsKbLine(line, hit) ==
  /\ line # <<>> /\ line[1] = Bullet
  /\ IsPrefix(Tail(line), hit)
  /\ \A i \in DOMAIN line : line[i] # NL
  /\ Len(line) - 1 = Len(hit) \/ hit[Len(line)] = NL

\* line is the bullet and "species observed at location (date)" of row
IsObsLine(line, row) ==
  line = <<Bullet>> \o PyStr(row["species_name"]) \o <<" observed at ">>
           \o PyStr(row["location"])
           \o <<" (">> \o PyStr(row["date_observed"]) \o <<")">>

\* C1: after a submission, the last record load_observations returns equals
\* the submitted record field for field (every field the string submitted).
C1_RoundTrip ==
  op = "submit" =>
    /\ obs_df.rows # <<>>
    /\ \A c \in Range(Columns) :
         obs_df.rows[Len(obs_df.rows)][c] = StrV(history[Len(history)].row[c])

\* C2: when every concurrent save_observation call has completed, the file
\* ends with the last writer's record; when no two calls overlapped, the
\* file holds every record, in the order the calls completed.
C2_LastWriterWins ==
  (\A p \in DOMAIN sess : sess[p].pc = "done") =>
    /\ file.exists /\ file.rows # <<>>
    /\ file.rows[Len(file.rows)] = sess[writes[Len(writes)]].row
    /\ ~overlap => file.rows = [i \in DOMAIN writes |-> sess[writes[i]].row]

\* C2, the lost update: every call has completed and the file holds fewer
\* records than were saved.
C2_LostRecord ==
  /\ \A p \in DOMAIN sess : sess[p].pc = "done"
  /\ overlap
  /\ Len(file.rows) < NumSessions

\* C3: the store holds exactly the submitted records, unchanged, in
\* submission order.
C3_AppendOnly ==
  file.exists /\ op # "start" =>
    file.rows = [i \in DOMAIN history |-> history[i].row]

\* C5 as stated: an empty query gives no hits.
C5_EmptyQueryNoHits ==
  Asked /\ query = <<>> => kb_hits = <<>> /\ obs_hits = <<>>

\* C5 as amended: an empty query gives every snippet and every record of
\* the store, in order.
C5_EmptyQueryAllHits ==
  Asked /\ query = <<>> =>
    /\ kb_hits = kb
    /\ obs_hits = read_csv(file).rows
    /\ Len(obs_hits) = Len(history)

\* C5: an empty question asked of a full store and a knowledge base
C5_EmptyQueryAsked ==
  Asked /\ query = <<>> /\ kb # <<>> /\ Len(file.rows) = MaxRows

\* C6: for a non-empty query, obsHits is the records of the store, in order,
\* one of whose four searched fields, lowercased, contains the lowercased
\* query (an empty field contains no non-empty query), and kbHits is the
\* snippets, in order, whose lowercased content contains it.
C6_ExactFilter ==
  Asked /\ query # <<>> =>
    /\ obs_hits =
         Pick(ask_df.rows,
              {i \in DOMAIN file.rows : \E c \in SearchedFields :
                 IsSubstring(lower(query), lower(file.rows[i][c]))})
    /\ kb_hits =
         Pick(kb, {i \in DOMAIN kb : IsSubstring(lower(query), lower(kb[i]))})

\* C7: the answer is the not-found message exactly when there is no hit;
\* otherwise its lines are, after the heading, one line per kb hit (the
\* bullet and the hit's first line), then one line per observation hit
\* (the bullet and "species observed at location (date)"), in order.
C7_AnswerSynthesis ==
  Asked =>
    /\ answer = NotFoundMessage <=> (kb_hits = <<>> /\ obs_hits = <<>>)
    /\ (kb_hits # <<>> \/ obs_hits # <<>>) =>
         LET lines == SplitLines(answer)
             nk == Len(kb_hits)
             no == Len(obs_hits)
             body == IF obs_hits = <<>>
                     THEN SubSeq(lines, 3, Len(lines) - 1)
                     ELSE SubSeq(lines, 3, Len(lines))
         IN /\ Len(lines) >= 2
            /\ lines[1] = AnswerHeader
            /\ lines[2] = <<>>
            /\ obs_hits = <<>> => lines[Len(lines)] = <<>>
            /\ Len(body) = nk + no
            /\ \A i \in 1..nk : IsKbLine(body[i], kb_hits[i])
            /\ \A i \in 1..no : IsObsLine(body[nk + i], obs_hits[i])

\* C7: a question with two kb hits, one of several lines, and
\* observation hits
C7_BothKindsOfHits ==
  /\ Asked
  /\ Len(kb_hits) = 2 /\ Len(obs_hits) = MaxRows
  /\ \E i \in DOMAIN kb_hits : FirstLine(kb_hits[i]) # kb_hits[i]

\* C8: a page view or a question creates the header-only file when the
\* file is absent and leaves an existing file as it is; the two loads of
\* one run, and the loads of consecutive runs, return the same records;
\* the load that displays the store after a submission leaves the record
\* just saved in the file.
C8_ReadsDoNotWrite ==
  [][/\ op' \in {"display", "ask"} =>
          /\ file' = IF file.exists THEN file
                     ELSE [exists |-> TRUE, header |-> Columns, rows |-> <<>>]
          /\ Len(file'.header) = 8
          /\ (op' = "ask" /\ error' = "none") => ask_df' = obs_df'
          /\ file.exists => obs_df' = obs_df
     /\ Len(history') > Len(history) =>
          /\ Len(file'.rows) = Len(file.rows) + 1
          /\ file'.rows[Len(file'.rows)] = history'[Len(history')].row
          /\ obs_df' = read_csv(file')]_vars

\* C8: a question asked over an existing file with records
C8_LoadedTwice ==
  Asked /\ file.rows # <<>> /\ ask_df.rows # <<>> /\ query = <<"x">>

\* C9: for an empty store get_top_observer gives "N/A"; for a non-empty
\* store the display block shows a submitted_by value of the store that no
\* other value outnumbers.
C9_TopObserver ==
  op \in {"submit", "display"} =>
    IF DfEmpty(obs_df)
    THEN get_top_observer(obs_df) = {StrV(<<"N","/","A">>)}
    ELSE LET by(i) == obs_df.rows[i]["submitted_by"]
             n(v) == Cardinality({i \in DOMAIN obs_df.rows : by(i) = v})
         IN /\ error = "none"
            /\ \E i \in DOMAIN obs_df.rows : by(i) = top_observer
            /\ \A j \in DOMAIN obs_df.rows : n(top_observer) >= n(by(j))

\* C10: every record of the store has the eight fields, a submitted_by
\* that is not blank ("Anonymous" when the name was left blank), and an
\* empty image_url exactly when no image was uploaded.
C10_WellFormed ==
  file.exists /\ op # "start" =>
    /\ Len(file.rows) = Len(history)
    /\ \A i \in DOMAIN file.rows :
         /\ DOMAIN file.rows[i] = Range(Columns)
         /\ file.rows[i]["submitted_by"] # <<>>
         /\ (file.rows[i]["image_url"] = <<>>) <=> ~history[i].uploaded

====
